---- MODULE Spec2Model ----
(***************************************************************************)
(* Model of the QuillNexus "Run Protocol" orchestrator (App component),    *)
(* its Topic Ledger / Completion Set handling and the agent functions of   *)
(* services/geminiService.ts that it drives.                               *)
(*                                                                         *)
(* One action is one synchronous stretch of JavaScript: a UI event handler *)
(* or the continuation of an async function after an await.  React state   *)
(* updates queued in one stretch are committed together with it.           *)
(***************************************************************************)
EXTENDS Integers, Sequences, FiniteSets, TLC

(***************************************************************************)
(* Bounds of the model (not program constants).                            *)
(***************************************************************************)
\* user operations (runs started, unlocks started, manual adds, slot selections,
\* reloads) in one behaviour of Spec
MaxOps == 3
\* protocol runs started in one behaviour of ProtocolSpec
MaxProtocolRuns == 2
\* transient failures the API can answer in a row to one withRetry invocation
MaxTransient == 4
\* the most pieces a response text is put together from
MaxPieces == 4

(***************************************************************************)
(* JavaScript values.  An object is a function from its own keys to        *)
(* values; a key that is not in DOMAIN reads as undefined.                 *)
(***************************************************************************)
\* the value of a missing string property, as a template literal prints it
Undefined == "undefined"

EmptyObject == [k \in {} |-> Undefined]

Has(obj, key) == key \in DOMAIN obj

\* obj.key for a string property
Prop(obj, key) == IF Has(obj, key) THEN obj[key] ELSE Undefined

\* obj.key || fallback for a string property: undefined and "" are falsy
PropOr(obj, key, fallback) ==
    IF Has(obj, key) /\ obj[key] # "" /\ obj[key] # Undefined THEN obj[key] ELSE fallback

\* obj.key || [] for an array property: an array, even empty, is truthy
ArrayOr(obj, key) == IF Has(obj, key) THEN obj[key] ELSE <<>>

\* {...prev, ...patch}
Spread(prev, patch) == patch @@ prev

(***************************************************************************)
(* constants.ts                                                            *)
(***************************************************************************)
INITIAL_BLUEPRINT ==
    [ videoNumber   |-> 1,
      videoType     |-> "Introductory",
      seoData       |-> [keywords |-> <<>>, selectedTitle |-> "Pending Research..."],
      scriptContent |-> [hook |-> "", body |-> "", cta |-> "", sceneBreakdown |-> <<>>],
      visualPlan    |-> [imagePrompts |-> <<>>, videoPrompts |-> <<>>],
      marketingData |-> [targetUrl |-> "", offerType |-> "", validationStatus |-> "pending"] ]

VIDEO_TYPES ==
    ( 1 :> "Introductory / The Struggle"   @@
      2 :> "Explainer 1 / The Mechanism"   @@
      3 :> "Explainer 2 / The Application" @@
      4 :> "Tutorial 1 / The Deep Dive"    @@
      5 :> "Tutorial 2 / The Masterclass" )

(***************************************************************************)
(* Errors.  status/code 0 stands for a missing property; the message is    *)
(* the sequence of its characters, <<>> when the error has none.           *)
(***************************************************************************)
Includes(text, sub) ==
    \E i \in 1..(Len(text) - Len(sub) + 1) : SubSeq(text, i, i + Len(sub) - 1) = sub

MakeError(status, code, message) == [status |-> status, code |-> code, message |-> message]

\* HTTP 429 from the API, message "quota"
ErrRateLimit == MakeError(429, 0, <<"q", "u", "o", "t", "a">>)
\* HTTP 500 from the API, message "bad"
ErrInternal == MakeError(500, 0, <<"b", "a", "d">>)
\* SyntaxError of JSON.parse, message "Unexpected token"
ErrSyntax == MakeError(0, 0, <<"U", "n", "e", "x", "p", "e", "c", "t", "e", "d">>)
\* SyntaxError of JSON.parse on the text "quota hit": engines that quote the rejected
\* text in the message (V8: Unexpected token 'q', "quota hit" is not valid JSON)
ErrSyntaxQuoted == MakeError(0, 0, <<"U", "n", "e", "x", "p", " ", "q", "u", "o", "t", "a">>)
\* the single signals an error can carry
ErrStatus429 == MakeError(429, 0, <<>>)
ErrCode429 == MakeError(0, 429, <<>>)
ErrMessage429 == MakeError(0, 0, <<"g", "o", "t", " ", "4", "2", "9">>)
ErrMessageQuota == MakeError(0, 0, <<"q", "u", "o", "t", "a">>)
ErrStatus503 == MakeError(503, 0, <<>>)
ErrCode503 == MakeError(0, 503, <<>>)
\* TypeError of reading a property of undefined
ErrType == MakeError(0, 0, <<"C", "a", "n", "n", "o", "t", " ", "r", "e", "a", "d">>)

(***************************************************************************)
(* withRetry (geminiService.ts:24-40)                                      *)
(***************************************************************************)
DefaultRetries == 3
DefaultDelayMs == 5000

\* faulty variant: a message naming 429 is not a signature
isRateLimit_noMessage429(error) ==
    \/ error.status = 429
    \/ error.code = 429
    \/ Includes(error.message, <<"q", "u", "o", "t", "a">>)

isRateLimit(error) ==
    \/ error.status = 429
    \/ error.code = 429
    \/ Includes(error.message, <<"4", "2", "9">>)
    \/ Includes(error.message, <<"q", "u", "o", "t", "a">>)

isServerOverload(error) == error.status = 503 \/ error.code = 503

\* faulty variant: no error is retried
shouldRetry_never(retries, error) == FALSE

\* faulty variant: every error is retried while the budget lasts
shouldRetry_any(retries, error) == retries > 0

\* faulty variant: the budget test is off by one
shouldRetry_lax(retries, error) == retries >= 0 /\ (isRateLimit(error) \/ isServerOverload(error))

\* the condition of the retry branch
shouldRetry(retries, error) == retries > 0 /\ (isRateLimit(error) \/ isServerOverload(error))

(***************************************************************************)
(* What the generative API can answer to one request: a text that parses   *)
(* to an object, a text that JSON.parse rejects, or a thrown error.        *)
(***************************************************************************)
Json(data) == [kind |-> "json", data |-> data, error |-> ErrSyntax]
Garbage == [kind |-> "garbage", data |-> EmptyObject, error |-> ErrSyntax]
\* a text that JSON.parse rejects with a SyntaxError whose message quotes the text
GarbageQuoted == [kind |-> "garbage", data |-> EmptyObject, error |-> ErrSyntaxQuoted]
Thrown(error) == [kind |-> "error", data |-> EmptyObject, error |-> error]

\* the outcome of the function wrapped by withRetry
Returned(value) == [ok |-> TRUE, value |-> value, error |-> ErrInternal]
Threw(error) == [ok |-> FALSE, value |-> EmptyObject, error |-> error]

ResearchFallback == [keywords |-> <<>>, selectedTitle |-> "Research Failed - Retry"]

\* faulty variant: the parse failure of the Researcher is thrown like that of the others
runResearchAgent_throws(resp) ==
    CASE resp.kind = "json"    -> Returned(resp.data)
      [] resp.kind = "garbage" -> Threw(resp.error)
      [] OTHER                 -> Threw(resp.error)

\* runResearchAgent: the parse failure is swallowed into the fallback
runResearchAgent(resp) ==
    CASE resp.kind = "json"    -> Returned(resp.data)
      [] resp.kind = "garbage" -> Returned(ResearchFallback)
      [] OTHER                 -> Threw(resp.error)

\* faulty variant: the parsed object is returned as it is
runScriptAgent_raw(resp) ==
    CASE resp.kind = "json"    -> Returned(resp.data)
      [] resp.kind = "garbage" -> Threw(resp.error)
      [] OTHER                 -> Threw(resp.error)

\* runScriptAgent: body and cta are back-filled, hook is not
runScriptAgent(resp) ==
    CASE resp.kind = "json" ->
            Returned(Spread(resp.data,
                [ body |-> PropOr(resp.data, "body", "Script body generation failed. Please retry."),
                  cta  |-> PropOr(resp.data, "cta", "Call to action generation failed.") ]))
      [] resp.kind = "garbage" -> Threw(resp.error)
      [] OTHER                 -> Threw(resp.error)

\* runVisualAgent, runMarketingAgent, runLogicAgent: JSON.parse(response.text)
runParsedAgent(resp) ==
    CASE resp.kind = "json"    -> Returned(resp.data)
      [] resp.kind = "garbage" -> Threw(resp.error)
      [] OTHER                 -> Threw(resp.error)

\* runStrategyAgent: data.topics || {}
runStrategyAgent(resp) ==
    CASE resp.kind = "json" ->
            Returned(IF Has(resp.data, "topics") THEN resp.data.topics ELSE EmptyObject)
      [] resp.kind = "garbage" -> Threw(resp.error)
      [] OTHER                 -> Threw(resp.error)

agentOutcome(agent, resp) ==
    CASE agent = "Research" -> runResearchAgent(resp)
      [] agent = "Script"   -> runScriptAgent(resp)
      [] agent = "Strategy" -> runStrategyAgent(resp)
      [] OTHER              -> runParsedAgent(resp)

(***************************************************************************)
(* withRetry as a function of the answers the API gives to the successive  *)
(* calls of fn: the settled promise, the number of calls and the waits.    *)
(***************************************************************************)
RECURSIVE withRetry(_, _, _, _)
withRetry(agent, answers, retries, delayMs) ==
    LET out == agentOutcome(agent, Head(answers))
    IN  IF out.ok
        THEN [ok |-> TRUE, value |-> out.value, error |-> out.error, calls |-> 1,
              waited |-> <<>>]
        ELSE IF shouldRetry(retries, out.error)
        THEN LET rest == withRetry(agent, Tail(answers), retries - 1, delayMs * 2)
             IN  [rest EXCEPT !.calls = @ + 1, !.waited = <<delayMs>> \o @]
        ELSE [ok |-> FALSE, value |-> EmptyObject, error |-> out.error, calls |-> 1,
              waited |-> <<>>]

(***************************************************************************)
(* The answers the model lets the API give to each agent's request.        *)
(* "basic": one well-formed object per agent; "full": also the object with *)
(* every property missing (an empty response text parses as {}).           *)
(***************************************************************************)
ResearchJson(variety) ==
    {[keywords |-> <<"ai tools", "prompts">>, selectedTitle |-> "Title A"]}
        \cup (IF variety = "full" THEN {EmptyObject} ELSE {})

ScriptJson(variety) ==
    {[hook |-> "Hook A", body |-> "Body A", cta |-> "Cta A",
      sceneBreakdown |-> <<"[8s] one {Voiceover: a}", "[9s] two {Voiceover: b}">>]}
        \cup (IF variety = "full" THEN {EmptyObject} ELSE {})

VisualJson(variety) ==
    {[thumbnailPrompt |-> "Thumb A", imagePrompts |-> <<"img 1", "img 2">>,
      videoPrompts |-> <<"broll 1">>]}
        \cup (IF variety = "full" THEN {EmptyObject} ELSE {})

MarketingJson(variety) ==
    {[targetUrl |-> "https://go.newmoneymillionaires757.com/", offerType |-> "Lead Magnet"]}
        \cup (IF variety = "full" THEN {EmptyObject} ELSE {})

LogicJson(variety) ==
    {[isValid |-> TRUE, report |-> "Routing ok"],
     [isValid |-> FALSE, report |-> "Wrong funnel stage"]}
        \cup (IF variety = "full" THEN {EmptyObject} ELSE {})

TopicsFrom(lo, hi) == [n \in lo..hi |-> "Trend / Topic " \o ToString(n)]

\* the Strategist is asked for last+1..last+5; nothing makes the answer comply
StrategyJson(last) == { [topics |-> TopicsFrom(last + 1, last + 5)],
                        [topics |-> TopicsFrom(last + 2, last + 6)],
                        EmptyObject }

\* the answers that end a withRetry invocation whatever its budget
FinalAnswers(agent, last, variety) ==
    {Garbage, Thrown(ErrInternal)} \cup
    { Json(d) : d \in CASE agent = "Research"  -> ResearchJson(variety)
                        [] agent = "Script"    -> ScriptJson(variety)
                        [] agent = "Visual"    -> VisualJson(variety)
                        [] agent = "Marketing" -> MarketingJson(variety)
                        [] agent = "Logic"     -> LogicJson(variety)
                        [] OTHER               -> StrategyJson(last) }

\* k rate-limit failures in a row, then a final answer
Answers(agent, last, variety) ==
    { [i \in 1..(k + 1) |-> IF i <= k THEN Thrown(ErrRateLimit) ELSE final] :
        k \in 0..MaxTransient, final \in FinalAnswers(agent, last, variety) }

\* the promise an agent function returns, settled
Settled(agent, last, variety) ==
    { withRetry(agent, answers, DefaultRetries, DefaultDelayMs) :
        answers \in Answers(agent, last, variety) }

\* what the user can type into the Custom Topic Manager
Titles == {"My Topic", "   "}
Types == {"Custom Strategy"}

\* title.trim() of CustomTopicManager.handleSubmit, on the titles above
Trim(title) == IF title = "   " THEN "" ELSE title

(***************************************************************************)
(* State                                                                   *)
(***************************************************************************)
VARIABLES
    blueprint,        \* useState<ProductionBlueprint>
    logs,             \* useState<AgentLog[]>
    isProcessing,     \* useState(false)
    videoTypes,       \* the Topic Ledger, persisted
    completedVideos,  \* the Completion Set, persisted
    pc,               \* the await at which startProtocol / generateNextPhase is suspended
    frame,            \* the closure values and locals of the suspended async function
    pending,          \* the agents whose promise has not settled
    event,            \* history: the handler or continuation that ran last
    run,              \* history: the latest run (kind, outcome, merges, invocations, snapshot)
    ops,              \* history: the number of user operations so far
    call              \* a function of geminiService applied on its own: input and output

vars == <<blueprint, logs, isProcessing, videoTypes, completedVideos, pc, frame, pending,
          event, run, ops, call>>

Stages == <<"Research", "Script", "Visual", "Marketing", "Logic">>

NoFrame == [videoNumber |-> 0, videoType |-> "", totalVideosAvailable |-> 0, currentPhase |-> 0,
            researchData |-> EmptyObject, scriptData |-> EmptyObject,
            marketingData |-> EmptyObject]

NoRun == [kind |-> "none", outcome |-> "none", failed |-> "none", merged |-> <<>>,
          invoked |-> <<>>, returned |-> <<>>, preRun |-> INITIAL_BLUEPRINT]

\* history entry: `stage` has written `field` of the Blueprint, which now holds `value`
Merge(stage, field, value) == [stage |-> stage, field |-> field, value |-> value]

Invocation(agent, args) == [agent |-> agent, args |-> args]

\* an argument whose JavaScript type matters: a string, or an array of strings
JsString(value) == [type |-> "string", value |-> value]
JsArray(value) == [type |-> "array", value |-> value]
JsUndefined == [type |-> "undefined", value |-> Undefined]

\* no function of geminiService is applied on its own
NoCall == [fn |-> "none", settled |-> TRUE]

(***************************************************************************)
(* Derived render values (App, lines 79-85)                                *)
(***************************************************************************)
totalVideosAvailable == Cardinality(DOMAIN videoTypes)

\* faulty variant: only the slots of the latest block of five are looked at
isCurrentPhaseComplete_block ==
    \A n \in ((5 * ((totalVideosAvailable + 4) \div 5) - 4)..(5 * ((totalVideosAvailable + 4) \div 5)))
                \cap DOMAIN videoTypes : n \in completedVideos

isCurrentPhaseComplete ==
    totalVideosAvailable > 0 /\ \A n \in 1..totalVideosAvailable : n \in completedVideos

\* Math.ceil(totalVideosAvailable / 5)
currentPhase == (totalVideosAvailable + 4) \div 5

\* the UNLOCK PHASE button is rendered (App, lines 455-465)
unlockExposed == isCurrentPhaseComplete

\* faulty variant: the call of `next` is issued without awaiting the one before it
awaited_overlap(agent, next) == pending \cup next

\* `await agent(...)` has resumed and the call of `next` is awaited instead
awaited(agent, next) == (pending \ {agent}) \cup next

\* faulty variant: every entry is typed info
LogEntry_info(agentName, message, type) == [agentName |-> agentName, message |-> message, type |-> "info"]

LogEntry(agentName, message, type) == [agentName |-> agentName, message |-> message, type |-> type]

\* faulty variant: the new entry is put in front
addLog_prepend(l, agentName, message, type) == <<LogEntry(agentName, message, type)>> \o l

\* addLog applied to the log value l
addLog(l, agentName, message, type) == Append(l, LogEntry(agentName, message, type))

(***************************************************************************)
(* Page load: the state after the App component is constructed from the    *)
(* persisted Ledger and Completion Set (App, lines 47-64).                 *)
(***************************************************************************)
\* Completion Sets a browser can hold from earlier sessions on the default Ledger
PersistedCompletions == { {}, 1..4, 1..5 }

Loaded ==
    /\ blueprint = INITIAL_BLUEPRINT
    /\ logs = <<>>
    /\ isProcessing = FALSE
    /\ videoTypes = VIDEO_TYPES
    /\ completedVideos \in PersistedCompletions
    /\ pc = "idle"
    /\ frame = NoFrame
    /\ pending = {}
    /\ event = "load"
    /\ run = NoRun
    /\ ops = 0

Init == Loaded /\ call = NoCall

(***************************************************************************)
(* The per-stage merges of startProtocol (the setBlueprint updaters).      *)
(***************************************************************************)
\* faulty variant: the Research stage starts the document afresh instead of merging into it
mergeSeoData_reset(prev, researchData) ==
    Spread(INITIAL_BLUEPRINT,
        [ videoNumber |-> prev.videoNumber,
          videoType   |-> prev.videoType,
          seoData     |->
            [ keywords      |-> ArrayOr(researchData, "keywords"),
              selectedTitle |-> PropOr(researchData, "selectedTitle", "Untitled") ] ])

mergeSeoData(prev, researchData) ==
    Spread(prev, [seoData |->
        [ keywords      |-> ArrayOr(researchData, "keywords"),
          selectedTitle |-> PropOr(researchData, "selectedTitle", "Untitled") ]])

\* faulty variant: the Script stage spreads the blueprint of its closure (the value at the start
\* of the run) instead of the previous state
mergeScriptContent_stale(prev, scriptData) ==
    Spread(run.preRun, [scriptContent |->
        [ hook           |-> Prop(scriptData, "hook"),
          body           |-> Prop(scriptData, "body"),
          cta            |-> Prop(scriptData, "cta"),
          sceneBreakdown |-> ArrayOr(scriptData, "sceneBreakdown") ]])

mergeScriptContent(prev, scriptData) ==
    Spread(prev, [scriptContent |->
        [ hook           |-> Prop(scriptData, "hook"),
          body           |-> Prop(scriptData, "body"),
          cta            |-> Prop(scriptData, "cta"),
          sceneBreakdown |-> ArrayOr(scriptData, "sceneBreakdown") ]])

mergeVisualPlan(prev, visualData) ==
    Spread(prev, [visualPlan |->
        [ imagePrompts |-> ArrayOr(visualData, "imagePrompts"),
          videoPrompts |-> ArrayOr(visualData, "videoPrompts") ]])

mergeMarketingData(prev, marketingData) ==
    Spread(prev, [marketingData |->
        [ targetUrl        |-> PropOr(marketingData, "targetUrl", "https://haze.ai/offer"),
          offerType        |-> PropOr(marketingData, "offerType", "Lead Magnet"),
          validationStatus |-> "pending" ]])

\* faulty variant: any answer of the Logic Validator counts as valid
isValid_always(logicData) == TRUE

\* logicData.isValid as a condition
isValid(logicData) == Has(logicData, "isValid") /\ logicData.isValid

\* faulty variant: the Logic stage replaces marketingData instead of spreading it
mergeLogic_replace(prev, logicData) ==
    Spread(prev, [marketingData |->
        [ validationStatus |-> IF isValid(logicData) THEN "valid" ELSE "invalid",
          logicReport      |-> Prop(logicData, "report") ]])

mergeLogic(prev, logicData) ==
    Spread(prev, [marketingData |->
        Spread(prev.marketingData,
            [ validationStatus |-> IF isValid(logicData) THEN "valid" ELSE "invalid",
              logicReport      |-> Prop(logicData, "report") ])])

(***************************************************************************)
(* startProtocol (App, lines 204-299)                                      *)
(***************************************************************************)
OrchestrationFailed == LogEntry("System", "Orchestration failed. Check console for details.", "error")

\* faulty variant: the catch block also marks the slot complete
protocolCatch_marks(l) ==
    /\ logs' = Append(l, OrchestrationFailed)
    /\ isProcessing' = FALSE
    /\ pc' = "idle"
    /\ frame' = NoFrame
    /\ completedVideos' = completedVideos \cup {frame.videoNumber}
    /\ UNCHANGED <<videoTypes, ops, call>>

\* faulty variant: the catch block swallows the error without a log entry
protocolCatch_silent(l) ==
    /\ logs' = l
    /\ isProcessing' = FALSE
    /\ pc' = "idle"
    /\ frame' = NoFrame
    /\ UNCHANGED <<videoTypes, completedVideos, ops, call>>

\* faulty variant: no finally block, the flag stays set after the catch
protocolCatch_stuck(l) ==
    /\ logs' = Append(l, OrchestrationFailed)
    /\ isProcessing' = TRUE
    /\ pc' = "idle"
    /\ frame' = NoFrame
    /\ UNCHANGED <<videoTypes, completedVideos, ops, call>>

\* catch + finally of startProtocol, the log being l when the error arrives
protocolCatch(l) ==
    /\ logs' = Append(l, OrchestrationFailed)
    /\ isProcessing' = FALSE
    /\ pc' = "idle"
    /\ frame' = NoFrame
    /\ UNCHANGED <<videoTypes, completedVideos, ops, call>>

\* faulty variant: no guard
guardPasses_none == TRUE

\* the guard of startProtocol and generateNextPhase
guardPasses == ~isProcessing

\* the handler of the INITIATE PROTOCOL button, up to the first await;
\* maxOps bounds the operations of one behaviour
startProtocol(maxOps) ==
    /\ event' = "startProtocol"
    /\ IF ~guardPasses
       THEN UNCHANGED <<blueprint, logs, isProcessing, videoTypes, completedVideos, pc,
                        frame, pending, run, ops, call>>
       ELSE /\ ops < maxOps
            /\ ops' = ops + 1
            /\ UNCHANGED call
            /\ isProcessing' = TRUE
            /\ logs' = addLog(addLog(<<>>, "HazeOrchestrator",
                                 "Initializing Protocol V3 for Video #"
                                     \o ToString(blueprint.videoNumber) \o "...", "info"),
                              "Palzani-16 (Researcher)", "Scanning for high-volume keywords...",
                              "info")
            /\ frame' = [NoFrame EXCEPT !.videoNumber = blueprint.videoNumber,
                                        !.videoType = blueprint.videoType]
            /\ pending' = awaited("none", {"Research"})
            /\ pc' = "Research"
            /\ run' = [kind |-> "protocol", outcome |-> "running", failed |-> "none",
                       merged |-> <<>>,
                       invoked |-> <<Invocation("Research",
                                                <<videoTypes[blueprint.videoNumber]>>)>>,
                       returned |-> <<>>, preRun |-> blueprint]
            /\ UNCHANGED <<blueprint, videoTypes, completedVideos>>

\* the continuation after `await runResearchAgent`, up to `await runScriptAgent`
researchResolved(variety) ==
    /\ pc = "Research"
    /\ \E out \in Settled("Research", 0, variety) :
        LET researchData == out.value
            l == addLog(addLog(logs, "Palzani-16 (Researcher)",
                               "Title locked: " \o Prop(researchData, "selectedTitle"), "success"),
                        "Palzani-26 (Director)",
                        "Drafting narrative arc (Hook -> Solution -> Blueprint)...", "info")
            inv == Invocation("Script", <<Prop(researchData, "selectedTitle"), frame.videoType,
                                          IF Has(researchData, "keywords")
                                          THEN JsArray(researchData.keywords)
                                          ELSE JsUndefined>>)
        IN  /\ out.ok
            /\ event' = "researchResolved"
            /\ blueprint' = mergeSeoData(blueprint, researchData)
            /\ IF Has(researchData, "keywords")
               THEN /\ logs' = l
                    /\ frame' = [frame EXCEPT !.researchData = researchData]
                    /\ pending' = awaited("Research", {"Script"})
                    /\ pc' = "Script"
                    /\ run' = [run EXCEPT !.merged = Append(@, Merge("Research", "seoData",
                                                                     blueprint'.seoData)),
                                          !.returned = Append(@, researchData),
                                          !.invoked = Append(@, inv)]
                    /\ UNCHANGED <<isProcessing, videoTypes, completedVideos, ops, call>>
               ELSE \* keywords.join throws a TypeError inside runScriptAgent before any
                    \* request; withRetry rethrows it and the catch block runs
                    /\ ~shouldRetry(DefaultRetries, ErrType)
                    /\ protocolCatch(l)
                    /\ pending' = awaited("Research", {})
                    /\ run' = [run EXCEPT !.merged = Append(@, Merge("Research", "seoData",
                                                                     blueprint'.seoData)),
                                          !.returned = Append(@, researchData),
                                          !.invoked = Append(@, inv),
                                          !.outcome = "error", !.failed = "Script"]

\* the continuation after `await runScriptAgent`, up to `await runVisualAgent`
scriptResolved(variety) ==
    /\ pc = "Script"
    /\ \E out \in Settled("Script", 0, variety) :
        LET scriptData == out.value
        IN  /\ out.ok
            /\ event' = "scriptResolved"
            /\ blueprint' = mergeScriptContent(blueprint, scriptData)
            /\ logs' = addLog(addLog(logs, "Palzani-26 (Director)",
                                     "Script generated and validated.", "success"),
                              "Palzani-23 (Design)", "Generating kinetic imagery prompts...",
                              "info")
            /\ frame' = [frame EXCEPT !.scriptData = scriptData]
            /\ pending' = awaited("Script", {"Visual"})
            /\ pc' = "Visual"
            /\ run' = [run EXCEPT !.merged = Append(@, Merge("Script", "scriptContent",
                                                             blueprint'.scriptContent)),
                                  !.returned = Append(@, scriptData),
                                  !.invoked = Append(@, Invocation("Visual",
                                                  <<JsString(PropOr(scriptData, "body", ""))>>))]
            /\ UNCHANGED <<isProcessing, videoTypes, completedVideos, ops, call>>

\* the continuation after `await runVisualAgent`, up to `await runMarketingAgent`
visualResolved(variety) ==
    /\ pc = "Visual"
    /\ \E out \in Settled("Visual", 0, variety) :
        LET visualData == out.value
        IN  /\ out.ok
            /\ event' = "visualResolved"
            /\ blueprint' = mergeVisualPlan(blueprint, visualData)
            /\ logs' = addLog(addLog(logs, "Palzani-23 (Design)",
                                     "Created " \o ToString(Len(ArrayOr(visualData, "imagePrompts")))
                                         \o " image prompts.", "success"),
                              "Palzani-5 (Growth)", "Calculating optimal funnel strategy...",
                              "info")
            /\ pending' = awaited("Visual", {"Marketing"})
            /\ pc' = "Marketing"
            /\ run' = [run EXCEPT !.merged = Append(@, Merge("Visual", "visualPlan",
                                                             blueprint'.visualPlan)),
                                  !.returned = Append(@, visualData),
                                  !.invoked = Append(@, Invocation("Marketing",
                                                  <<frame.videoNumber>>))]
            /\ UNCHANGED <<isProcessing, videoTypes, completedVideos, frame, ops, call>>

\* the continuation after `await runMarketingAgent`, up to `await runLogicAgent`
marketingResolved(variety) ==
    /\ pc = "Marketing"
    /\ \E out \in Settled("Marketing", 0, variety) :
        LET marketingData == out.value
        IN  /\ out.ok
            /\ event' = "marketingResolved"
            /\ blueprint' = mergeMarketingData(blueprint, marketingData)
            /\ logs' = addLog(addLog(logs, "Palzani-5 (Growth)", "Funnel logic calculated.",
                                     "success"),
                              "Palzani-O (Logic)",
                              "Validating router logic and URL destination...", "info")
            /\ frame' = [frame EXCEPT !.marketingData = marketingData]
            /\ pending' = awaited("Marketing", {"Logic"})
            /\ pc' = "Logic"
            /\ run' = [run EXCEPT !.merged = Append(@, Merge("Marketing", "marketingData",
                                                             blueprint'.marketingData)),
                                  !.returned = Append(@, marketingData),
                                  !.invoked = Append(@, Invocation("Logic",
                                                  <<PropOr(marketingData, "targetUrl",
                                                           "https://haze.ai"),
                                                    frame.videoNumber>>))]
            /\ UNCHANGED <<isProcessing, videoTypes, completedVideos, ops, call>>

\* faulty variant: the slot after the active one is marked
markComplete_next(prev, videoNumber) == prev \cup {videoNumber + 1}

\* new Set(prev).add(blueprint.videoNumber)
markComplete(prev, videoNumber) == prev \cup {videoNumber}

\* the continuation after `await runLogicAgent`, through Done and finally
logicResolved(variety) ==
    /\ pc = "Logic"
    /\ \E out \in Settled("Logic", 0, variety) :
        LET logicData == out.value
            verdict == IF isValid(logicData)
                       THEN LogEntry("Palzani-O (Logic)",
                                     "Logic Verified: " \o Prop(logicData, "report"), "success")
                       ELSE LogEntry("Palzani-O (Logic)",
                                     "Logic Error: " \o Prop(logicData, "report"), "error")
        IN  /\ out.ok
            /\ event' = "logicResolved"
            /\ blueprint' = mergeLogic(blueprint, logicData)
            /\ logs' = addLog(Append(logs, verdict), "HazeOrchestrator",
                              "Protocol V3 Complete. Blueprint ready.", "success")
            /\ completedVideos' = markComplete(completedVideos, frame.videoNumber)
            /\ isProcessing' = FALSE
            /\ pc' = "idle"
            /\ frame' = NoFrame
            /\ pending' = awaited("Logic", {})
            /\ run' = [run EXCEPT !.merged = Append(@, Merge("Logic", "marketingData",
                                                             blueprint'.marketingData)),
                                  !.returned = Append(@, logicData),
                                  !.outcome = "done"]
            /\ UNCHANGED <<videoTypes, ops, call>>

\* the awaited agent's promise rejects: catch and finally of startProtocol
protocolRejected(variety) ==
    /\ pc \in {Stages[i] : i \in 1..Len(Stages)}
    /\ \E out \in Settled(pc, 0, variety) :
        /\ ~out.ok
        /\ event' = "protocolRejected"
        /\ protocolCatch(logs)
        /\ pending' = awaited(pc, {})
        /\ run' = [run EXCEPT !.outcome = "error", !.failed = pc]
        /\ UNCHANGED blueprint

(***************************************************************************)
(* generateNextPhase (App, lines 301-323)                                  *)
(***************************************************************************)
StrategyFailed == LogEntry("System", "Strategy generation failed.", "error")

\* faulty variant: the Strategist is given the number of the next slot
strategyArguments_next == <<totalVideosAvailable + 1>>

\* the arguments of `runStrategyAgent(totalVideosAvailable)`
strategyArguments == <<totalVideosAvailable>>

\* the handler of the UNLOCK PHASE button, which is rendered only when
\* isCurrentPhaseComplete holds, up to `await runStrategyAgent`
generateNextPhase ==
    /\ unlockExposed
    /\ event' = "generateNextPhase"
    /\ IF ~guardPasses
       THEN UNCHANGED <<blueprint, logs, isProcessing, videoTypes, completedVideos, pc,
                        frame, pending, run, ops, call>>
       ELSE /\ ops < MaxOps
            /\ ops' = ops + 1
            /\ UNCHANGED call
            /\ isProcessing' = TRUE
            /\ logs' = addLog(<<>>, "Palzani-Strat",
                              "Researching trends for Phase " \o ToString(currentPhase + 1)
                                  \o " (Videos " \o ToString(totalVideosAvailable + 1) \o "-"
                                  \o ToString(totalVideosAvailable + 5) \o ")...", "info")
            /\ frame' = [NoFrame EXCEPT !.totalVideosAvailable = totalVideosAvailable,
                                        !.currentPhase = currentPhase]
            /\ pending' = awaited("none", {"Strategy"})
            /\ pc' = "Strategy"
            /\ run' = [kind |-> "unlock", outcome |-> "running", failed |-> "none",
                       merged |-> <<>>,
                       invoked |-> <<Invocation("Strategy", strategyArguments)>>,
                       returned |-> <<>>, preRun |-> blueprint]
            /\ UNCHANGED <<blueprint, videoTypes, completedVideos>>

\* the continuation after `await runStrategyAgent`, through finally
strategyResolved ==
    /\ pc = "Strategy"
    /\ \E out \in Settled("Strategy", frame.totalVideosAvailable, "basic") :
        LET newTopics == out.value
        IN  /\ out.ok
            /\ event' = "strategyResolved"
            /\ videoTypes' = Spread(videoTypes, newTopics)
            /\ logs' = addLog(logs, "Palzani-Strat",
                              "Phase " \o ToString(frame.currentPhase + 1)
                                  \o " Unlocked: 5 New Topics Added.", "success")
            /\ isProcessing' = FALSE
            /\ pc' = "idle"
            /\ frame' = NoFrame
            /\ pending' = awaited("Strategy", {})
            /\ run' = [run EXCEPT !.returned = Append(@, newTopics), !.outcome = "done"]
            /\ UNCHANGED <<blueprint, completedVideos, ops, call>>

\* the Strategist's promise rejects: catch and finally of generateNextPhase
strategyRejected ==
    /\ pc = "Strategy"
    /\ \E out \in Settled("Strategy", frame.totalVideosAvailable, "basic") :
        /\ ~out.ok
        /\ event' = "strategyRejected"
        /\ logs' = Append(logs, StrategyFailed)
        /\ isProcessing' = FALSE
        /\ pc' = "idle"
        /\ frame' = NoFrame
        /\ pending' = awaited("Strategy", {})
        /\ run' = [run EXCEPT !.outcome = "error", !.failed = "Strategy"]
        /\ UNCHANGED <<blueprint, videoTypes, completedVideos, ops, call>>

(***************************************************************************)
(* The other handlers of App                                               *)
(***************************************************************************)
\* CustomTopicManager.handleSubmit -> handleAddCustomTopic (App, lines 191-201)
handleAddCustomTopic ==
    \E title \in Titles, type \in Types :
        LET nextNum == totalVideosAvailable + 1
            entry == type \o " / " \o title
        IN  /\ Trim(title) # ""
            /\ ops < MaxOps
            /\ ops' = ops + 1
            /\ UNCHANGED call
            /\ event' = "handleAddCustomTopic"
            /\ videoTypes' = Spread(videoTypes, (nextNum :> entry))
            /\ logs' = addLog(logs, "System",
                              "Custom Topic Added: Video #" \o ToString(nextNum) \o " - " \o title,
                              "success")
            /\ UNCHANGED <<blueprint, isProcessing, completedVideos, pc, frame, pending, run>>

\* faulty variant: the slot <select> is never disabled
slotSelectable_always == TRUE

\* disabled={isProcessing} of the slot <select>
slotSelectable == ~isProcessing

\* onChange of the slot <select>, which is disabled while isProcessing (App, lines 485-490)
selectSlot ==
    \E n \in DOMAIN videoTypes :
        /\ slotSelectable
        /\ ops < MaxOps
        /\ ops' = ops + 1
        /\ UNCHANGED call
        /\ event' = "selectSlot"
        /\ blueprint' = Spread(blueprint, [videoNumber |-> n, videoType |-> videoTypes[n]])
        /\ UNCHANGED <<logs, isProcessing, videoTypes, completedVideos, pc, frame, pending,
                       run>>

\* window.location.reload(): the page is constructed anew from the persisted Ledger vt
\* and Completion Set cv; a suspended async function does not survive it
reload(vt, cv) ==
    /\ ops < MaxOps
    /\ ops' = ops + 1
    /\ UNCHANGED call
    /\ blueprint' = INITIAL_BLUEPRINT
    /\ logs' = <<>>
    /\ isProcessing' = FALSE
    /\ videoTypes' = vt
    /\ completedVideos' = cv
    /\ pc' = "idle"
    /\ frame' = NoFrame
    /\ pending' = {}
    /\ run' = NoRun

\* confirmed reset (App, lines 140-149)
handleResetProgress ==
    /\ event' = "handleResetProgress"
    /\ reload(VIDEO_TYPES, {})

\* confirmed disconnect (App, lines 124-130)
handleDisconnectKey ==
    /\ event' = "handleDisconnectKey"
    /\ reload(videoTypes, completedVideos)

(***************************************************************************)
(* Spec: the whole App, every agent answering a well-formed object, a      *)
(* malformed text or an error.                                             *)
(***************************************************************************)
Next ==
    \/ startProtocol(MaxOps)
    \/ researchResolved("basic")
    \/ scriptResolved("basic")
    \/ visualResolved("basic")
    \/ marketingResolved("basic")
    \/ logicResolved("basic")
    \/ protocolRejected("basic")
    \/ generateNextPhase
    \/ strategyResolved
    \/ strategyRejected
    \/ handleAddCustomTopic
    \/ selectSlot
    \/ handleResetProgress
    \/ handleDisconnectKey

Spec == Init /\ [][Next]_vars

(***************************************************************************)
(* ProtocolSpec: Run Protocol runs on slot 1 of the default Ledger, the    *)
(* agents also answering objects with missing properties.                  *)
(***************************************************************************)
ProtocolNext ==
    \/ startProtocol(MaxProtocolRuns)
    \/ researchResolved("full")
    \/ scriptResolved("full")
    \/ visualResolved("full")
    \/ marketingResolved("full")
    \/ logicResolved("full")
    \/ protocolRejected("full")

\* a first session: nothing persisted
ProtocolInit == Init /\ completedVideos = {}

ProtocolSpec == ProtocolInit /\ [][ProtocolNext]_vars

(***************************************************************************)
(* Vocabulary of the properties                                            *)
(***************************************************************************)
BlueprintFields == {"seoData", "scriptContent", "visualPlan", "marketingData"}

\* the Blueprint field each stage merges into
FieldOf(stage) ==
    CASE stage = "Research" -> "seoData"
      [] stage = "Script"   -> "scriptContent"
      [] stage = "Visual"   -> "visualPlan"
      [] OTHER              -> "marketingData"

StageIndex(stage) == CHOOSE i \in 1..Len(Stages) : Stages[i] = stage

\* the fields and stages merged so far in the latest run
MergedFields == {run.merged[i].field : i \in 1..Len(run.merged)}
MergedStages == {run.merged[i].stage : i \in 1..Len(run.merged)}

\* the value the latest merge of field f in the run left in it
LastMerged(f) ==
    LET last == CHOOSE i \in 1..Len(run.merged) :
                    /\ run.merged[i].field = f
                    /\ \A j \in (i + 1)..Len(run.merged) : run.merged[j].field # f
    IN  run.merged[last].value

ProtocolHalted == run.kind = "protocol" /\ run.outcome = "error"
ProtocolDone == run.kind = "protocol" /\ run.outcome = "done"

(***************************************************************************)
(* C1: in a Run Protocol run the Blueprint fields are merged in the order  *)
(* seoData, scriptContent, visualPlan, marketingData (Marketer), then      *)
(* marketingData (Logic Validator); a field whose stage has not merged yet *)
(* still holds its pre-run value, and a run that reaches Done has made all *)
(* five merges.                                                            *)
(***************************************************************************)
C1_MergeOrder ==
    run.kind = "protocol" =>
        /\ Len(run.merged) <= Len(Stages)
        /\ \A i \in 1..Len(run.merged) :
            /\ run.merged[i].stage = Stages[i]
            /\ run.merged[i].field = FieldOf(Stages[i])
        /\ \A f \in BlueprintFields : f \notin MergedFields => blueprint[f] = run.preRun[f]
        /\ run.outcome = "done" => Len(run.merged) = Len(Stages)

\* a second run has merged seoData and scriptContent over the values of an earlier run
\* and not yet the rest
C1_Witness ==
    /\ run.kind = "protocol" /\ pc = "Visual"
    /\ run.preRun.visualPlan # INITIAL_BLUEPRINT.visualPlan
    /\ blueprint.seoData # run.preRun.seoData
    /\ blueprint.scriptContent # run.preRun.scriptContent

(***************************************************************************)
(* C2 as stated: after stage k threw, every field of a stage before k      *)
(* holds the value merged in this run and every field of stage k or of a   *)
(* later stage holds its pre-run value; of marketingData, the Marketer's   *)
(* field, validationStatus and logicReport are what belongs to the Logic   *)
(* Validator.                                                              *)
(***************************************************************************)
C2_AsStated ==
    ProtocolHalted =>
        \A i \in 1..Len(Stages) :
            IF i < StageIndex(run.failed)
            THEN /\ FieldOf(Stages[i]) \in MergedFields
                 /\ blueprint[FieldOf(Stages[i])] = LastMerged(FieldOf(Stages[i]))
            ELSE IF Stages[i] = "Logic"
                 THEN \* what the Logic Validator writes: validationStatus and logicReport
                      /\ blueprint.marketingData.validationStatus =
                             run.preRun.marketingData.validationStatus
                      /\ Has(blueprint.marketingData, "logicReport") =
                             Has(run.preRun.marketingData, "logicReport")
                 ELSE blueprint[FieldOf(Stages[i])] = run.preRun[FieldOf(Stages[i])]

(***************************************************************************)
(* C2 amended: after stage k threw, exactly the stages before k have       *)
(* merged; every field merged by one of them holds the value merged in     *)
(* this run and every other field holds its pre-run value.  marketingData  *)
(* belongs to the Marketer and to the Logic Validator: when the Logic      *)
(* Validator throws it holds the Marketer's merge of this run              *)
(* (validationStatus 'pending', no logicReport), not its pre-run value.    *)
(***************************************************************************)
C2_PartialFailure ==
    ProtocolHalted =>
        /\ MergedStages = {Stages[i] : i \in 1..(StageIndex(run.failed) - 1)}
        /\ \A f \in BlueprintFields :
            IF f \in MergedFields
            THEN blueprint[f] = LastMerged(f)
            ELSE blueprint[f] = run.preRun[f]
        /\ run.failed = "Logic" =>
            /\ blueprint.marketingData.validationStatus = "pending"
            /\ ~Has(blueprint.marketingData, "logicReport")

\* the Logic Validator threw in a run that started from the Blueprint of an earlier run
C2_Witness ==
    /\ ProtocolHalted /\ run.failed = "Logic"
    /\ run.preRun.marketingData # INITIAL_BLUEPRINT.marketingData
    /\ blueprint.marketingData # run.preRun.marketingData
    /\ blueprint.visualPlan = LastMerged("visualPlan")

(***************************************************************************)
(* C3: at most one of Run Protocol and Unlock Next Phase is in progress.   *)
(* An invocation of startProtocol or generateNextPhase while isProcessing  *)
(* is set changes nothing: no agent call, no change of the log, the        *)
(* Blueprint, the Ledger or the Completion Set; the run in progress stays  *)
(* the same run; and a run starts only in the step of an invocation that   *)
(* found the flag clear, so nothing is queued.                             *)
(***************************************************************************)
Starters == {"startProtocol", "generateNextPhase"}

C3_MutualExclusion ==
    [][ /\ (isProcessing /\ event' \in Starters) =>
            UNCHANGED <<blueprint, logs, isProcessing, videoTypes, completedVideos, pc,
                        frame, pending, run, ops, call>>
        /\ (isProcessing /\ isProcessing') =>
            /\ run'.kind = run.kind
            /\ run'.preRun = run.preRun
            /\ Len(run'.invoked) >= Len(run.invoked)
        /\ (~isProcessing /\ isProcessing') =>
            /\ event' \in Starters
            /\ run'.outcome = "running"
            /\ Len(run'.invoked) = 1
        /\ isProcessing' => Cardinality(pending') = 1
      ]_vars

\* startProtocol was invoked while the Strategist's answer was awaited
C3_Witness == event = "startProtocol" /\ pc = "Strategy" /\ isProcessing

(***************************************************************************)
(* C4: in a Run Protocol run the agents are called in stage order, the     *)
(* call of stage N is issued only when the answers of stages 1..N-1 have   *)
(* been merged into the Blueprint, and at most one call is outstanding.    *)
(***************************************************************************)
C4_StagesNeverOverlap ==
    run.kind = "protocol" =>
        /\ Cardinality(pending) <= 1
        /\ \A n \in 1..Len(run.invoked) : run.invoked[n].agent = Stages[n]
        /\ Len(run.merged) <= Len(run.invoked)
        /\ Len(run.invoked) <= Len(run.merged) + 1
        /\ pending # {} =>
            /\ pending = {Stages[Len(run.invoked)]}
            /\ Len(run.merged) = Len(run.invoked) - 1
        /\ \A f \in MergedFields : blueprint[f] = LastMerged(f)

\* the Marketer's call is outstanding, three merges behind it
C4_Witness ==
    /\ run.kind = "protocol" /\ pending = {"Marketing"}
    /\ Len(run.merged) = 3
    /\ blueprint.visualPlan # run.preRun.visualPlan

(***************************************************************************)
(* C5: the Completion Set gains a member only in the step in which a Run   *)
(* Protocol run reaches Done, all five agents having returned, and then    *)
(* exactly the slot number of the run; a run that halts on an error leaves *)
(* the Completion Set as it was.  (A reset empties the set.)               *)
(***************************************************************************)
C5_CompletionOnlyOnDone ==
    [][ /\ (run.outcome = "running" /\ run'.outcome = "done" /\ run.kind = "protocol") =>
            /\ Len(run'.returned) = Len(Stages)
            /\ completedVideos' = completedVideos \cup {run.preRun.videoNumber}
            /\ blueprint'.videoNumber = run.preRun.videoNumber
        /\ (run.outcome = "running" /\ run'.outcome = "error") =>
            completedVideos' = completedVideos
        /\ completedVideos' # completedVideos =>
            \/ run.outcome = "running" /\ run'.outcome = "done" /\ run.kind = "protocol"
            \/ event' = "handleResetProgress" /\ completedVideos' = {}
      ]_vars

\* a run on slot 2 has reached Done
C5_Witness ==
    /\ ProtocolDone /\ event = "logicResolved"
    /\ run.preRun.videoNumber = 2
    /\ 2 \in completedVideos

(***************************************************************************)
(* C6: an answer of the Logic Validator with isValid false is not a        *)
(* failure.  validationStatus is 'valid' exactly when isValid is true and  *)
(* 'invalid' otherwise, logicReport is the returned report; when isValid   *)
(* is not true an error-typed entry of the Logic stage is in the log, the  *)
(* generic orchestration failure is not, the run is Done and its slot is   *)
(* in the Completion Set.                                                  *)
(***************************************************************************)
C6_InvalidIsNotFailure ==
    (run.kind = "protocol" /\ Len(run.returned) = Len(Stages)) =>
        LET logicData == run.returned[Len(Stages)]
            valid == Has(logicData, "isValid") /\ logicData.isValid = TRUE
        IN  /\ run.outcome = "done"
            /\ blueprint.marketingData.validationStatus = (IF valid THEN "valid" ELSE "invalid")
            /\ blueprint.marketingData.logicReport = Prop(logicData, "report")
            /\ run.preRun.videoNumber \in completedVideos
            /\ \A i \in 1..Len(logs) : logs[i] # OrchestrationFailed
            /\ ~valid <=> \E i \in 1..Len(logs) : /\ logs[i].agentName = "Palzani-O (Logic)"
                                                  /\ logs[i].type = "error"

\* the Logic Validator answered isValid false
C6_Witness ==
    /\ ProtocolDone /\ Len(run.returned) = Len(Stages)
    /\ Has(run.returned[Len(Stages)], "isValid")
    /\ run.returned[Len(Stages)].isValid = FALSE
    /\ blueprint.marketingData.validationStatus = "invalid"

(***************************************************************************)
(* C7: when a stage throws, the agents of the later stages are not called  *)
(* in that run, and the log of the run ends with the one generic           *)
(* error-typed entry, the only error-typed entry in it.                    *)
(***************************************************************************)
C7_HaltOnThrow ==
    ProtocolHalted =>
        /\ Len(run.invoked) = StageIndex(run.failed)
        /\ \A n \in 1..Len(run.invoked) : run.invoked[n].agent = Stages[n]
        /\ pending = {} /\ pc = "idle" /\ ~isProcessing
        /\ Len(logs) > 0
        /\ logs[Len(logs)] = OrchestrationFailed
        /\ Cardinality({i \in 1..Len(logs) : logs[i].type = "error"}) = 1

\* the Visual Designer threw
C7_Witness ==
    /\ ProtocolHalted /\ run.failed = "Visual"
    /\ Len(run.invoked) = 3

(***************************************************************************)
(* C8 as stated: the keys of the Ledger are 1..N for some N >= 1.          *)
(***************************************************************************)
C8_ContiguousKeys ==
    /\ totalVideosAvailable >= 1
    /\ DOMAIN videoTypes = 1..totalVideosAvailable

(***************************************************************************)
(* C9 as stated: from a Ledger with keys 1..N, a successful Unlock Next    *)
(* Phase leaves the keys 1..N+5 and the old labels, and a manual add       *)
(* leaves the Ledger extended by N+1 with the label '<type> / <title>'.    *)
(***************************************************************************)
C9_GrowsByBatch ==
    [][ \A N \in 1..(5 * (MaxOps + 1)) :
          DOMAIN videoTypes = 1..N =>
            /\ (pc = "Strategy" /\ event' = "strategyResolved") =>
                 \* frame.totalVideosAvailable is the N of the invocation
                 /\ DOMAIN videoTypes' = DOMAIN videoTypes \cup
                        ((frame.totalVideosAvailable + 1)..(frame.totalVideosAvailable + 5))
                 /\ \A n \in 1..frame.totalVideosAvailable : videoTypes'[n] = videoTypes[n]
            /\ (event' = "handleAddCustomTopic" /\ logs' # logs) =>
                 /\ DOMAIN videoTypes' = 1..(N + 1)
                 /\ \A n \in 1..N : videoTypes'[n] = videoTypes[n]
                 /\ \E title \in Titles, type \in Types :
                        videoTypes'[N + 1] = type \o " / " \o title
      ]_vars

(***************************************************************************)
(* C10 as stated: the unlock capability is exposed exactly when every slot *)
(* of the current phase k, the numbers in [5k-4, 5k] that are keys of the  *)
(* Ledger, is in the Completion Set.                                       *)
(***************************************************************************)
C10_AsStated ==
    unlockExposed <=>
        (((5 * currentPhase - 4)..(5 * currentPhase)) \cap DOMAIN videoTypes) \subseteq completedVideos

(***************************************************************************)
(* C10 amended: the unlock capability is exposed exactly when the Ledger   *)
(* has N >= 1 entries and every slot number 1..N is in the Completion Set, *)
(* the slots of the earlier phases included.                               *)
(***************************************************************************)
C10_UnlockExposed ==
    unlockExposed <=>
        /\ Cardinality(DOMAIN videoTypes) >= 1
        /\ (1..Cardinality(DOMAIN videoTypes)) \subseteq completedVideos

\* the run on the last open slot reached Done and the capability appeared
C10_Witness ==
    /\ unlockExposed /\ event = "logicResolved"
    /\ completedVideos = DOMAIN videoTypes

(***************************************************************************)
(* C11: the merge of a stage changes the Blueprint field of that stage and *)
(* no other: seoData for Research, scriptContent for the Director,         *)
(* visualPlan for the Visual Designer, marketingData for the Marketer and  *)
(* the Logic Validator; the merge of the Logic Validator keeps the         *)
(* targetUrl and offerType the Marketer wrote; a run changes neither       *)
(* videoNumber nor videoType.                                              *)
(***************************************************************************)
C11_FrameEffect ==
    [][ /\ \A i \in 1..Len(Stages) :
              pc = Stages[i] =>
                /\ DOMAIN blueprint' = DOMAIN blueprint
                /\ \A f \in DOMAIN blueprint :
                      f # FieldOf(Stages[i]) => blueprint'[f] = blueprint[f]
        /\ (pc = "Logic" /\ event' = "logicResolved") =>
              /\ Has(blueprint'.marketingData, "targetUrl")
              /\ Has(blueprint'.marketingData, "offerType")
              /\ blueprint'.marketingData.targetUrl = blueprint.marketingData.targetUrl
              /\ blueprint'.marketingData.offerType = blueprint.marketingData.offerType
        /\ run'.kind = "protocol" =>
              /\ blueprint'.videoNumber = run'.preRun.videoNumber
              /\ blueprint'.videoType = run'.preRun.videoType
      ]_vars

\* the Logic Validator's merge came after the Marketer's in a run over an earlier run's
\* Blueprint
C11_Witness ==
    /\ ProtocolDone /\ event = "logicResolved"
    /\ run.preRun.seoData # INITIAL_BLUEPRINT.seoData
    /\ Has(run.returned[4], "targetUrl")
    /\ blueprint.marketingData.targetUrl = run.returned[4].targetUrl
    /\ Has(blueprint.marketingData, "logicReport")

(***************************************************************************)
(* RetrySpec: one agent function of geminiService called on its own, the   *)
(* API failing the first requests with transient errors and then giving    *)
(* one answer to every later request.                                      *)
(***************************************************************************)
AgentNames == {"Research", "Script", "Visual", "Marketing", "Logic", "Strategy"}

\* errors the retry branch is taken for, and errors it is not taken for
TransientErrors == {ErrRateLimit, ErrStatus429, ErrCode429, ErrMessage429, ErrMessageQuota,
                    ErrStatus503, ErrCode503, ErrSyntaxQuoted}
NonTransientErrors == {ErrInternal, ErrSyntax, ErrType}

\* answers of the Director with an empty body, and with only body and scenes
ScriptPartialJson ==
    { [hook |-> "Hook A", body |-> "", cta |-> "Cta A", sceneBreakdown |-> <<"[8s] one">>],
      [body |-> "Body A", sceneBreakdown |-> <<"[8s] one">>],
      [hook |-> "Hook A", body |-> "Body A", cta |-> ""] }

\* what the API answers from some request on
RetryFinals(agent) ==
    FinalAnswers(agent, Cardinality(DOMAIN VIDEO_TYPES), "full")
        \cup {GarbageQuoted}
        \cup (IF agent = "Script" THEN {Json(d) : d \in ScriptPartialJson} ELSE {})
        \cup {Thrown(e) : e \in TransientErrors \cup NonTransientErrors}

\* what the API answers to the requests before: one of two transient errors
RetryFailures(k) == [1..k -> {Thrown(ErrStatus429), Thrown(ErrStatus503)}]

\* the answers to the requests 1..MaxTransient+1: k failures, then the final answer
RetryAnswers(agent) ==
    UNION { { [i \in 1..(MaxTransient + 1) |-> IF i <= k THEN fails[i] ELSE final] :
                fails \in RetryFailures(k), final \in RetryFinals(agent) } :
            k \in 0..MaxTransient }

NoOut == [ok |-> FALSE, value |-> EmptyObject, error |-> ErrInternal, calls |-> 0,
          waited |-> <<>>]

\* an agent function is about to be called: it wraps its request in
\* withRetry(fn, retries, DefaultDelayMs); the agents pass the default budget, the
\* recursion passes the smaller ones
RetryInit ==
    /\ Loaded
    /\ completedVideos = {}
    /\ \E agent \in AgentNames, retries \in 0..DefaultRetries :
         \E answers \in RetryAnswers(agent) :
            call = [fn |-> "withRetry", settled |-> FALSE, agent |-> agent,
                    answers |-> answers, retries |-> retries, delayMs |-> DefaultDelayMs,
                    out |-> NoOut]

\* the promise of withRetry settles
callAgent ==
    /\ call.fn = "withRetry"
    /\ ~call.settled
    /\ call' = [call EXCEPT !.settled = TRUE,
                            !.out = withRetry(call.agent, call.answers, call.retries,
                                              call.delayMs)]
    /\ UNCHANGED <<blueprint, logs, isProcessing, videoTypes, completedVideos, pc, frame,
                   pending, event, run, ops>>

RetryNext == callAgent

RetrySpec == RetryInit /\ [][RetryNext]_vars

\* the n-th call of the wrapped operation fails with a transient error / with another
\* error / succeeds
FailsTransient(n) ==
    /\ ~agentOutcome(call.agent, call.answers[n]).ok
    /\ agentOutcome(call.agent, call.answers[n]).error \in TransientErrors

FailsOtherwise(n) ==
    /\ ~agentOutcome(call.agent, call.answers[n]).ok
    /\ agentOutcome(call.agent, call.answers[n]).error \in NonTransientErrors

Succeeds(n) == agentOutcome(call.agent, call.answers[n]).ok

RetrySettled == call.fn = "withRetry" /\ call.settled

(***************************************************************************)
(* C12: with the default budget, when the wrapped operation fails with a   *)
(* transient error on its first k calls (k in 0..3) and succeeds on call   *)
(* k+1, withRetry resolves with the value of that call unaltered, after    *)
(* k+1 calls and k waits of 5000, 10000, 20000 ms in that order.           *)
(***************************************************************************)
C12_RetryThenSuccess ==
    (RetrySettled /\ call.retries = DefaultRetries) =>
        \A k \in 0..3 :
            ((\A n \in 1..k : FailsTransient(n)) /\ Succeeds(k + 1)) =>
                /\ call.out.ok
                /\ call.out.value = agentOutcome(call.agent, call.answers[k + 1]).value
                /\ call.out.calls = k + 1
                /\ call.out.waited = SubSeq(<<5000, 10000, 20000>>, 1, k)

\* two transient failures, then success: 15000 ms of waiting
C12_Witness ==
    /\ RetrySettled /\ call.retries = DefaultRetries
    /\ FailsTransient(1) /\ FailsTransient(2) /\ Succeeds(3)
    /\ call.out.ok
    /\ call.out.waited = <<5000, 10000>>

(***************************************************************************)
(* C13: whatever the budget, when the first call of the wrapped operation  *)
(* fails with an error without transient signature, withRetry rejects with *)
(* that error after that one call and without waiting.                     *)
(***************************************************************************)
C13_NonTransientRethrown ==
    (RetrySettled /\ FailsOtherwise(1)) =>
        /\ ~call.out.ok
        /\ call.out.error = agentOutcome(call.agent, call.answers[1]).error
        /\ call.out.calls = 1
        /\ call.out.waited = <<>>

\* an HTTP 500 on the first call, the whole budget left
C13_Witness ==
    /\ RetrySettled /\ call.retries = DefaultRetries
    /\ call.answers[1] = Thrown(ErrInternal)
    /\ ~call.out.ok /\ call.out.error = ErrInternal /\ call.out.calls = 1

(***************************************************************************)
(* C14: withRetry settles; with a budget of r retries the wrapped          *)
(* operation is called at most r+1 times, once more than it waits; with    *)
(* the default budget and a transient failure on every call there are      *)
(* exactly 4 calls and waits of 5000, 10000 and 20000 ms, and withRetry    *)
(* rejects with the error of the fourth call.                              *)
(***************************************************************************)
C14_BudgetExhausted ==
    RetrySettled =>
        /\ call.out.calls >= 1
        /\ call.out.calls <= call.retries + 1
        /\ Len(call.out.waited) = call.out.calls - 1
        /\ (call.retries = DefaultRetries /\ \A n \in 1..4 : FailsTransient(n)) =>
            /\ ~call.out.ok
            /\ call.out.calls = 4
            /\ call.out.waited = <<5000, 10000, 20000>>
            /\ call.out.error = agentOutcome(call.agent, call.answers[4]).error

\* three HTTP 429 and then HTTP 503 for good: the 503 is what the caller gets
C14_Witness ==
    /\ RetrySettled /\ call.retries = DefaultRetries
    /\ \A n \in 1..3 : call.answers[n] = Thrown(ErrStatus429)
    /\ call.answers[4] = Thrown(ErrStatus503)
    /\ ~call.out.ok /\ call.out.error = ErrStatus503 /\ call.out.calls = 4

(***************************************************************************)
(* cleanJson (geminiService.ts:43-56) on texts as sequences of characters. *)
(***************************************************************************)
\* text.indexOf(c) and text.lastIndexOf(c): 0-based, -1 when c does not occur
IndexOf(text, c) ==
    IF \E i \in 1..Len(text) : text[i] = c
    THEN (CHOOSE i \in 1..Len(text) : text[i] = c /\ \A j \in 1..(i - 1) : text[j] # c) - 1
    ELSE -1

LastIndexOf(text, c) ==
    IF \E i \in 1..Len(text) : text[i] = c
    THEN (CHOOSE i \in 1..Len(text) : text[i] = c /\ \A j \in (i + 1)..Len(text) : text[j] # c) - 1
    ELSE -1

\* text.substring(start, end), 0-based, end exclusive
Substring(text, start, end) == SubSeq(text, start + 1, end)

\* text.replace(/pattern/g, ''): the matches are taken left to right, without overlap
RECURSIVE RemoveAll(_, _)
RemoveAll(text, pattern) ==
    IF Len(text) < Len(pattern) THEN text
    ELSE IF SubSeq(text, 1, Len(pattern)) = pattern
         THEN RemoveAll(SubSeq(text, Len(pattern) + 1, Len(text)), pattern)
         ELSE <<Head(text)>> \o RemoveAll(Tail(text), pattern)

WhiteSpace == {" ", "\n"}

\* text.trim()
RECURSIVE TrimText(_)
TrimText(text) ==
    IF text = <<>> THEN text
    ELSE IF Head(text) \in WhiteSpace THEN TrimText(Tail(text))
    ELSE IF text[Len(text)] \in WhiteSpace THEN TrimText(SubSeq(text, 1, Len(text) - 1))
    ELSE text

\* the backtick character, which a TLA+ string cannot hold
Tick == "tick"

FenceJson == <<Tick, Tick, Tick, "j", "s", "o", "n">>
Fence == <<Tick, Tick, Tick>>

\* faulty variant: the slice ends at the first closing brace
cleanJson_firstClose(text) ==
    IF text = <<>> THEN <<"{", "}">>
    ELSE LET firstOpen == IndexOf(text, "{")
             lastClose == IndexOf(text, "}")
         IN  IF firstOpen # -1 /\ lastClose # -1 /\ lastClose > firstOpen
             THEN Substring(text, firstOpen, lastClose + 1)
             ELSE TrimText(RemoveAll(RemoveAll(text, FenceJson), Fence))

cleanJson(text) ==
    IF text = <<>> THEN <<"{", "}">>
    ELSE LET firstOpen == IndexOf(text, "{")
             lastClose == LastIndexOf(text, "}")
         IN  IF firstOpen # -1 /\ lastClose # -1 /\ lastClose > firstOpen
             THEN Substring(text, firstOpen, lastClose + 1)
             ELSE TrimText(RemoveAll(RemoveAll(text, FenceJson), Fence))

(***************************************************************************)
(* CleanSpec: cleanJson applied to a response text put together from at    *)
(* most MaxPieces pieces.                                                  *)
(***************************************************************************)
Pieces == {FenceJson, Fence, <<"{">>, <<"}">>, <<" ">>, <<"\n">>, <<"a">>, <<Tick>>}

RECURSIVE Texts(_)
Texts(n) ==
    IF n = 0 THEN {<<>>}
    ELSE Texts(n - 1) \cup {t \o piece : t \in Texts(n - 1), piece \in Pieces}

CleanInit ==
    /\ Loaded
    /\ completedVideos = {}
    /\ \E text \in Texts(MaxPieces) :
         call = [fn |-> "cleanJson", settled |-> FALSE, text |-> text, out |-> <<>>]

\* cleanJson returns
callCleanJson ==
    /\ call.fn = "cleanJson"
    /\ ~call.settled
    /\ call' = [call EXCEPT !.settled = TRUE, !.out = cleanJson(call.text)]
    /\ UNCHANGED <<blueprint, logs, isProcessing, videoTypes, completedVideos, pc, frame,
                   pending, event, run, ops>>

CleanNext == callCleanJson

CleanSpec == CleanInit /\ [][CleanNext]_vars

CleanSettled == call.fn = "cleanJson" /\ call.settled

\* the text holds a '{' and, later, a '}'
HasBracePair(text) ==
    \E i \in 1..Len(text), j \in 1..Len(text) : i < j /\ text[i] = "{" /\ text[j] = "}"

\* out is the part of text from its first '{' through its last '}'
IsBraceSlice(text, out) ==
    \E i \in 1..Len(text), j \in 1..Len(text) :
        /\ i < j
        /\ text[i] = "{" /\ \A n \in 1..(i - 1) : text[n] # "{"
        /\ text[j] = "}" /\ \A n \in (j + 1)..Len(text) : text[n] # "}"
        /\ out = SubSeq(text, i, j)

\* the text with the code-fence markers removed and the surrounding whitespace trimmed
Unfenced(text) == TrimText(RemoveAll(RemoveAll(text, FenceJson), Fence))

(***************************************************************************)
(* C15 as stated: for a text with a '{' and a later '}' the result is the  *)
(* part from the first '{' through the last '}'; for every other text it   *)
(* is the text without fence markers, trimmed, and a text without fence    *)
(* markers and without braces is returned unchanged.                       *)
(***************************************************************************)
C15_AsStated ==
    CleanSettled =>
        IF HasBracePair(call.text)
        THEN IsBraceSlice(call.text, call.out)
        ELSE /\ call.out = Unfenced(call.text)
             /\ ~Includes(call.text, Fence) => call.out = call.text

(***************************************************************************)
(* C15 amended: the empty text gives '{}'; a text with a '{' and a later   *)
(* '}' gives the part from the first '{' through the last '}'; every other *)
(* text gives the text without fence markers, trimmed of surrounding       *)
(* whitespace, so a text without fence markers and without a brace pair is *)
(* returned trimmed, unchanged only when it neither starts nor ends with   *)
(* whitespace.                                                             *)
(***************************************************************************)
C15_CleanJson ==
    CleanSettled =>
        IF call.text = <<>> THEN call.out = <<"{", "}">>
        ELSE IF HasBracePair(call.text) THEN IsBraceSlice(call.text, call.out)
        ELSE /\ call.out = Unfenced(call.text)
             /\ ~Includes(call.text, Fence) =>
                  /\ call.out = TrimText(call.text)
                  /\ (call.text[1] \notin WhiteSpace /\ call.text[Len(call.text)] \notin WhiteSpace)
                        => call.out = call.text

\* a fenced json block gives the object text
C15_Witness ==
    /\ CleanSettled
    /\ call.text = FenceJson \o <<"{", "}">> \o Fence
    /\ call.out = <<"{", "}">>

(***************************************************************************)
(* C16: when the text of the Researcher's response is not valid JSON,      *)
(* runResearchAgent resolves with the fallback {keywords: [],              *)
(* selectedTitle: "Research Failed - Retry"}: the request that got the     *)
(* text is the last one, whatever budget is left and whatever the          *)
(* SyntaxError says; and a run whose Researcher returned the fallback      *)
(* merges it and calls the Director with the fallback title and no         *)
(* keywords.                                                               *)
(***************************************************************************)
\* k rate-limit failures, then the text
AfterFailures(k, answer) == [i \in 1..(k + 1) |-> IF i <= k THEN Thrown(ErrStatus429) ELSE answer]

C16_ResearchFallback ==
    /\ \A k \in 0..DefaultRetries, text \in {Garbage, GarbageQuoted} :
          LET out == withRetry("Research", AfterFailures(k, text), DefaultRetries,
                               DefaultDelayMs)
          IN  /\ out.ok
              /\ out.value = [keywords |-> <<>>, selectedTitle |-> "Research Failed - Retry"]
              /\ out.calls = k + 1
              /\ Len(out.waited) = k
    /\ ( /\ run.kind = "protocol"
         /\ Len(run.returned) >= 1
         /\ run.returned[1] = [keywords |-> <<>>, selectedTitle |-> "Research Failed - Retry"] ) =>
          /\ run.failed # "Research"
          /\ blueprint.seoData = [keywords |-> <<>>, selectedTitle |-> "Research Failed - Retry"]
          /\ Len(run.invoked) >= 2
          /\ run.invoked[2] = Invocation("Script", <<"Research Failed - Retry",
                                                     run.preRun.videoType, JsArray(<<>>)>>)

\* the Director's call is outstanding after the Researcher returned the fallback
C16_Witness ==
    /\ run.kind = "protocol" /\ pending = {"Script"}
    /\ run.returned = <<ResearchFallback>>
    /\ blueprint.seoData.selectedTitle = "Research Failed - Retry"

(***************************************************************************)
(* C17 as stated: for every agent but the Researcher, a response text that *)
(* JSON.parse rejects ends the call: it is the last request, withRetry     *)
(* does not wait for it, and the agent rejects with the parse error.       *)
(***************************************************************************)
C17_ParseErrorPropagates ==
    (RetrySettled /\ call.agent # "Research") =>
        \A n \in 1..call.out.calls :
            call.answers[n].kind = "garbage" =>
                /\ n = call.out.calls
                /\ ~call.out.ok
                /\ call.out.error = call.answers[n].error
                /\ Len(call.out.waited) = n - 1

(***************************************************************************)
(* C18 as stated: the Visual Designer is called with the sceneBreakdown    *)
(* the Director returned in the same run.                                  *)
(***************************************************************************)
C18_VisualGetsScenes ==
    (run.kind = "protocol" /\ Len(run.invoked) >= 3) =>
        /\ run.invoked[3].agent = "Visual"
        /\ Len(run.invoked[3].args) = 1
        /\ run.invoked[3].args[1].type = "array"
        /\ run.invoked[3].args[1] = JsArray(ArrayOr(run.returned[2], "sceneBreakdown"))

(***************************************************************************)
(* C19 as stated: after the merge of the Visual stage, visualPlan holds    *)
(* the thumbnailPrompt, the imagePrompts and the videoPrompts the Visual   *)
(* Designer returned in that run.                                          *)
(***************************************************************************)
C19_VisualPlanComplete ==
    (run.kind = "protocol" /\ Len(run.merged) >= 3) =>
        \A f \in {"thumbnailPrompt", "imagePrompts", "videoPrompts"} :
            Has(run.returned[3], f) =>
                /\ Has(blueprint.visualPlan, f)
                /\ blueprint.visualPlan[f] = run.returned[3][f]

(***************************************************************************)
(* C20: the Agent Log is append-only between clears and is emptied at the  *)
(* start of each run.  The step that starts a run leaves only the first    *)
(* entries of that run in the log (the Orchestrator's and the Researcher's *)
(* for Run Protocol, the Strategist's for Unlock Next Phase); a reload     *)
(* leaves the log empty; every other step keeps the entries already there, *)
(* in place and unmodified, and at most appends entries at the end.        *)
(***************************************************************************)
C20_LogAppendOnly ==
    [][ IF ~isProcessing /\ isProcessing'
        THEN \/ /\ run'.kind = "protocol"
                /\ Len(logs') = 2
                /\ logs'[1].agentName = "HazeOrchestrator"
                /\ logs'[2].agentName = "Palzani-16 (Researcher)"
             \/ /\ run'.kind = "unlock"
                /\ Len(logs') = 1
                /\ logs'[1].agentName = "Palzani-Strat"
        ELSE IF event' \in {"handleResetProgress", "handleDisconnectKey"}
        THEN logs' = <<>>
        ELSE /\ Len(logs') >= Len(logs)
             /\ SubSeq(logs', 1, Len(logs)) = logs
      ]_vars

\* a second run has started over the Blueprint of a finished one: its log has the two
\* first entries only
C20_Witness ==
    /\ event = "startProtocol" /\ pc = "Research"
    /\ run.preRun.marketingData # INITIAL_BLUEPRINT.marketingData
    /\ Len(logs) = 2
    /\ logs[1].message = "Initializing Protocol V3 for Video #1..."

(***************************************************************************)
(* UnlockSpec: Unlock Next Phase runs, manual adds, slot selections and    *)
(* reloads on a Ledger whose first five slots are complete.                *)
(***************************************************************************)
UnlockInit == Init /\ completedVideos = 1..5

UnlockNext ==
    \/ generateNextPhase
    \/ strategyResolved
    \/ strategyRejected
    \/ handleAddCustomTopic
    \/ selectSlot
    \/ handleDisconnectKey

UnlockSpec == UnlockInit /\ [][UnlockNext]_vars

(***************************************************************************)
(* C21: an Unlock Next Phase run calls the Strategist, once, with the      *)
(* number of Ledger entries at its start, and no other agent; its start    *)
(* changes neither the Blueprint, the Ledger nor the Completion Set; its   *)
(* end, in success and in failure, clears isProcessing and changes neither *)
(* the Blueprint nor the Completion Set, and in failure not the Ledger.    *)
(***************************************************************************)
C21_UnlockFrame ==
    [][ /\ (~isProcessing /\ isProcessing' /\ run'.kind = "unlock") =>
              /\ run'.invoked = <<Invocation("Strategy", <<Cardinality(DOMAIN videoTypes)>>)>>
              /\ pending' = {"Strategy"}
              /\ blueprint' = blueprint
              /\ videoTypes' = videoTypes
              /\ completedVideos' = completedVideos
        /\ (pc = "Strategy" /\ event' \in {"strategyResolved", "strategyRejected"}) =>
              /\ run'.invoked = run.invoked
              /\ pending' = {}
              /\ ~isProcessing' /\ pc' = "idle"
              /\ blueprint' = blueprint
              /\ completedVideos' = completedVideos
              /\ DOMAIN logs' = 1..(Len(logs) + 1)
        /\ (pc = "Strategy" /\ event' = "strategyRejected") => videoTypes' = videoTypes
      ]_vars

\* an unlock ended in success with slot 3 selected: five more slots, the rest as before
C21_Witness ==
    /\ run.kind = "unlock" /\ run.outcome = "done" /\ event = "strategyResolved"
    /\ DOMAIN videoTypes = 1..10
    /\ blueprint.videoNumber = 3
    /\ completedVideos = 1..5

(***************************************************************************)
(* C22: in a Run Protocol run in which no stage has thrown, the log after  *)
(* the Orchestrator's opening entry holds, for the stages in order, an     *)
(* info entry of the stage, present once its agent has been invoked, then  *)
(* a result entry of the stage, present once it has merged: success-typed, *)
(* except error-typed for the Logic stage when isValid is not true.  Each  *)
(* stage has exactly these two entries at Done, and the Orchestrator's     *)
(* closing entry follows them.                                             *)
(***************************************************************************)
\* the name under which a stage writes to the log
AgentLabel(stage) ==
    CASE stage = "Research"  -> "Palzani-16 (Researcher)"
      [] stage = "Script"    -> "Palzani-26 (Director)"
      [] stage = "Visual"    -> "Palzani-23 (Design)"
      [] stage = "Marketing" -> "Palzani-5 (Growth)"
      [] stage = "Logic"     -> "Palzani-O (Logic)"

C22_StageLogs ==
    (run.kind = "protocol" /\ run.outcome \in {"running", "done"}) =>
        LET invoked == Len(run.invoked)
            merged == Len(run.merged)
            resultType(n) ==
                IF /\ Stages[n] = "Logic"
                   /\ ~(Has(run.returned[n], "isValid") /\ run.returned[n].isValid = TRUE)
                THEN "error" ELSE "success"
        IN  /\ Len(logs) = 1 + invoked + merged + (IF run.outcome = "done" THEN 1 ELSE 0)
            /\ logs[1].agentName = "HazeOrchestrator"
            /\ merged = (IF run.outcome = "done" THEN Len(Stages) ELSE invoked - 1)
            /\ \A n \in 1..invoked :
                   /\ logs[2 * n].agentName = AgentLabel(Stages[n])
                   /\ logs[2 * n].type = "info"
                   /\ run.invoked[n].agent = Stages[n]
            /\ \A n \in 1..merged :
                   /\ logs[2 * n + 1].agentName = AgentLabel(Stages[n])
                   /\ logs[2 * n + 1].type = resultType(n)
                   /\ run.merged[n].stage = Stages[n]
            /\ run.outcome = "done" =>
                   /\ logs[Len(logs)].agentName = "HazeOrchestrator"
                   /\ \A n \in 1..Len(Stages) :
                          Cardinality({i \in 1..Len(logs) :
                                          logs[i].agentName = AgentLabel(Stages[n])}) = 2

\* a run is Done whose Logic stage logged an error-typed result
C22_Witness ==
    /\ ProtocolDone /\ event = "logicResolved"
    /\ Len(logs) = 12
    /\ logs[11].type = "error"
    /\ logs[9].type = "success"

(***************************************************************************)
(* LiveSpec: runs of both kinds and page reloads, on a Ledger whose first  *)
(* five slots are complete.  Every agent call settles: the continuation    *)
(* of an awaited call is a task of the event loop, which runs it once the  *)
(* promise is resolved or rejected, hence weak fairness of Settles.        *)
(***************************************************************************)
Settles ==
    \/ researchResolved("basic")
    \/ scriptResolved("basic")
    \/ visualResolved("basic")
    \/ marketingResolved("basic")
    \/ logicResolved("basic")
    \/ protocolRejected("basic")
    \/ strategyResolved
    \/ strategyRejected

LiveNext ==
    \/ startProtocol(MaxOps)
    \/ generateNextPhase
    \/ Settles
    \/ handleResetProgress
    \/ handleDisconnectKey

LiveSpec == UnlockInit /\ [][LiveNext]_vars /\ WF_vars(Settles)

\* the page has been reloaded while a run was in progress
Reloaded == event \in {"handleResetProgress", "handleDisconnectKey"}

(***************************************************************************)
(* C23 as stated: every started run ends in Done or in the error state     *)
(* (an Unlock Next Phase run: back in Idle with its outcome), and only a   *)
(* thrown stage error ends a run before Done.                              *)
(***************************************************************************)
C23_AsStated ==
    /\ (run.outcome = "running") ~> (run.outcome \in {"done", "error"})
    /\ [][(run.outcome = "running" /\ run'.outcome # "running") =>
              run'.outcome \in {"done", "error"}]_vars

(***************************************************************************)
(* C23: every started run eventually ends, and the in-progress flag is     *)
(* clear and no call is awaited when it has ended.  A run ends in Done, in *)
(* the error state after a thrown stage error (an Unlock Next Phase run:   *)
(* in Idle after the Strategist's answer or error), or by a page reload:   *)
(* Reset Progress and Disconnect Key stay available during a run and       *)
(* abandon it.                                                             *)
(***************************************************************************)
C23_RunEnds ==
    /\ isProcessing ~> ~isProcessing
    /\ [](run.outcome = "running" <=> isProcessing)
    /\ [](~isProcessing => (pc = "idle" /\ pending = {}))
    /\ [][(run.outcome = "running" /\ run'.outcome # "running") =>
              \/ run'.outcome = "done" /\ Len(run'.returned) = Len(run.invoked)
              \/ run'.outcome = "error" /\ run'.failed \in {"Strategy"} \cup MergedStages
                                                              \cup {run.invoked[Len(run.invoked)].agent}
              \/ Reloaded' /\ run' = NoRun]_vars

\* the last permitted run was a Run Protocol run, ended by a thrown Visual stage
C23_Witness ==
    /\ run.kind = "protocol" /\ run.outcome = "error" /\ run.failed = "Visual"
    /\ event = "protocolRejected"
    /\ ~isProcessing /\ pc = "idle"
    /\ ops = MaxOps

(***************************************************************************)
(* C24: the object runScriptAgent resolves with has a non-empty body and a *)
(* non-empty cta: each is the value of the parsed response when that is    *)
(* present and non-empty, and the fixed placeholder of the field           *)
(* otherwise; hook is the parsed response's hook, absent when that is.     *)
(***************************************************************************)
C24_Backfill ==
    (RetrySettled /\ call.agent = "Script" /\ call.out.ok) =>
        LET data == call.answers[call.out.calls].data
            result == call.out.value
            present(key) == Has(data, key) /\ data[key] \notin {"", Undefined}
        IN  /\ Has(result, "body") /\ result.body \notin {"", Undefined}
            /\ Has(result, "cta") /\ result.cta \notin {"", Undefined}
            /\ result.body = (IF present("body") THEN data.body
                              ELSE "Script body generation failed. Please retry.")
            /\ result.cta = (IF present("cta") THEN data.cta
                             ELSE "Call to action generation failed.")
            /\ Has(result, "hook") <=> Has(data, "hook")
            /\ Has(data, "hook") => (Has(result, "hook") /\ result.hook = data.hook)
            /\ \A key \in DOMAIN data \ {"body", "cta"} : Has(result, key) /\ result[key] = data[key]

\* the Director answered body and scenes only, after one rate-limit failure
C24_Witness ==
    /\ RetrySettled /\ call.agent = "Script" /\ call.out.ok /\ call.out.calls = 2
    /\ call.out.value.body = "Body A"
    /\ call.out.value.cta = "Call to action generation failed."
    /\ ~Has(call.out.value, "hook")

(***************************************************************************)
(* C25 as stated: withRetry, with budget left, retries after a failed      *)
(* first call exactly when the error has status or code 429, a message     *)
(* containing "quota", or status or code 503; any other error is rethrown  *)
(* after that one call.                                                    *)
(***************************************************************************)
C25_AsStated ==
    (RetrySettled /\ call.retries > 0 /\ ~Succeeds(1)) =>
        LET error == agentOutcome(call.agent, call.answers[1]).error
            transient == \/ error.status = 429 \/ error.code = 429
                         \/ Includes(error.message, <<"q", "u", "o", "t", "a">>)
                         \/ error.status = 503 \/ error.code = 503
        IN  /\ transient <=> call.out.calls > 1
            /\ ~transient => (~call.out.ok /\ call.out.error = error /\ call.out.waited = <<>>)

(***************************************************************************)
(* C25: withRetry, with budget left, retries after a failed first call     *)
(* exactly when the error has status or code 429, a message containing     *)
(* "429" or "quota", or status or code 503; any other error is rethrown    *)
(* after that one call, without a wait.                                    *)
(***************************************************************************)
C25_TransientSignature ==
    (RetrySettled /\ call.retries > 0 /\ ~Succeeds(1)) =>
        LET error == agentOutcome(call.agent, call.answers[1]).error
            transient == \/ error.status = 429 \/ error.code = 429
                         \/ Includes(error.message, <<"4", "2", "9">>)
                         \/ Includes(error.message, <<"q", "u", "o", "t", "a">>)
                         \/ error.status = 503 \/ error.code = 503
        IN  /\ transient <=> call.out.calls > 1
            /\ ~transient => (~call.out.ok /\ call.out.error = error /\ call.out.waited = <<>>)

\* an error whose only signal is the text 429 in its message has been retried
C25_Witness ==
    /\ RetrySettled /\ call.retries = DefaultRetries
    /\ call.answers[1] = Thrown(ErrMessage429)
    /\ call.out.calls = DefaultRetries + 1
    /\ call.out.waited = <<5000, 10000, 20000>>
    /\ ~call.out.ok /\ call.out.error = ErrMessage429

(***************************************************************************)
(* C26: the title and the keywords with which the Director is called are   *)
(* the selectedTitle and the keywords the Research stage of the run merged *)
(* into seoData, and the Director stage does not throw before its request. *)
(***************************************************************************)
C26_DirectorGetsMerged ==
    (run.kind = "protocol" /\ Len(run.invoked) >= 2) =>
        LET args == run.invoked[2].args
            seoData == run.merged[1].value
        IN  /\ run.invoked[2].agent = "Script"
            /\ args[1] = seoData.selectedTitle
            /\ args[3].type = "array"
            /\ args[3].value = seoData.keywords
            /\ ~(event = "researchResolved" /\ run.outcome = "error" /\ run.failed = "Script")

(***************************************************************************)
(* C27: the URL with which the Logic Validator is called is the targetUrl  *)
(* the Marketing stage of the run stored in marketingData.                 *)
(***************************************************************************)
C27_LogicGetsStoredUrl ==
    (run.kind = "protocol" /\ Len(run.invoked) >= 5) =>
        /\ run.invoked[5].agent = "Logic"
        /\ run.merged[4].stage = "Marketing"
        /\ run.invoked[5].args[1] = run.merged[4].value.targetUrl

(***************************************************************************)
(* C28: from a Ledger whose keys are 1..N, no step of a manual add or of   *)
(* an Unlock Next Phase removes a slot or changes its label; a topic added *)
(* while the Strategist is awaited keeps its label when the Strategist's   *)
(* topics are merged.                                                      *)
(***************************************************************************)
C28_LabelsKept ==
    [][(DOMAIN videoTypes = 1..Cardinality(DOMAIN videoTypes)) =>
           \A n \in DOMAIN videoTypes :
               /\ n \in DOMAIN videoTypes'
               /\ videoTypes'[n] = videoTypes[n]]_vars

(***************************************************************************)
(* C29: a Run Protocol run starts on the slot the Blueprint shows: the     *)
(* Researcher gets that slot's Ledger topic.  While the run is in progress *)
(* videoNumber and videoType of the Blueprint keep the values they had at  *)
(* its start; the Director is called with that videoType, the Marketer and *)
(* the Logic Validator with that videoNumber, and the step that reaches    *)
(* Done adds that videoNumber, and nothing else, to the Completion Set.    *)
(***************************************************************************)
C29_ActiveSlotFixed ==
    [][ /\ (~isProcessing /\ isProcessing' /\ run'.kind = "protocol") =>
              /\ run'.invoked = <<Invocation("Research", <<videoTypes[blueprint.videoNumber]>>)>>
              /\ run'.preRun.videoNumber = blueprint.videoNumber
              /\ run'.preRun.videoType = blueprint.videoType
              /\ blueprint' = blueprint
        /\ (isProcessing /\ run.kind = "protocol" /\ ~Reloaded') =>
              /\ blueprint'.videoNumber = run.preRun.videoNumber
              /\ blueprint'.videoType = run.preRun.videoType
              /\ run'.preRun = run.preRun
              /\ Len(run'.invoked) >= 2 => run'.invoked[2].args[2] = run.preRun.videoType
              /\ Len(run'.invoked) >= 4 => run'.invoked[4].args = <<run.preRun.videoNumber>>
              /\ Len(run'.invoked) >= 5 => run'.invoked[5].args[2] = run.preRun.videoNumber
              /\ IF run'.outcome = "done"
                 THEN completedVideos' = completedVideos \cup {run.preRun.videoNumber}
                 ELSE completedVideos' = completedVideos
      ]_vars

\* a run on slot 3, selected before it, is Done
C29_Witness ==
    /\ ProtocolDone /\ event = "logicResolved"
    /\ run.preRun.videoNumber = 3
    /\ blueprint.videoNumber = 3
    /\ run.invoked[1].args = <<VIDEO_TYPES[3]>>
    /\ 3 \in completedVideos

(***************************************************************************)
(* C30: in every reachable state every slot number of the Completion Set   *)
(* is a key of the Ledger.                                                 *)
(***************************************************************************)
C30_CompletedInLedger == \A n \in completedVideos : n \in DOMAIN videoTypes

\* a slot added by an Unlock Next Phase has been run to Done
C30_Witness ==
    /\ ProtocolDone
    /\ run.preRun.videoNumber > 5
    /\ run.preRun.videoNumber \in completedVideos
    /\ run.preRun.videoNumber \in DOMAIN videoTypes

====
